---- MODULE Spec2Model ----
(***************************************************************************)
(* Vocabulary Analysis Engine of gauntlet-vocab-builder.                   *)
(*                                                                         *)
(* analyze_vocabulary (api/services/vocabulary_analysis.py) is modelled as *)
(* a sequence of steps over the inputs (text, student grade, minimum word  *)
(* length, contents of the grade_words table).  Word-forms are sequences   *)
(* of one-character strings so that lower(), len() and the [a-z] test are  *)
(* computed.  Optional values are sequences of length at most one: <<>> is *)
(* None.  Fractions are kept as integers: a value rounded to 4 decimals is *)
(* held in ten-thousandths, a value rounded to 1 decimal in tenths.        *)
(***************************************************************************)
EXTENDS Integers, Sequences, FiniteSets, TLC

\* ------------------------------------------------------------------ bounds
MaxTextLen == 2
MaxRows == 3
MaxLongWords == 22
MaxCallers == 2
MaxFailures == 1
MaxUseWords == 4
MaxRequests == 3

\* ------------------------------------------------------- program constants
MinGrade == 6
MaxGrade == 12
DefaultMinLength == 3
DistributionDigits == 4
AverageDigits == 1
ChallengingLimit == 20
ScoreDigits == 2

None == <<>>
Some(x) == <<x>>

Range(s) == {s[i] : i \in DOMAIN s}

RECURSIVE Pow10(_)
Pow10(n) == IF n = 0 THEN 1 ELSE 10 * Pow10(n - 1)

RECURSIVE SumSeq(_)
SumSeq(s) == IF s = <<>> THEN 0 ELSE Head(s) + SumSeq(Tail(s))

\* ------------------------------------------------------------- characters
Uppers == <<"A","B","C","D","E","F","G","H","I","J","K","L","M",
            "N","O","P","Q","R","S","T","U","V","W","X","Y","Z">>
Lowers == <<"a","b","c","d","e","f","g","h","i","j","k","l","m",
            "n","o","p","q","r","s","t","u","v","w","x","y","z">>

\* str.lower() on one character
LowerChar(c) ==
    IF \E i \in DOMAIN Uppers : Uppers[i] = c
    THEN Lowers[CHOOSE i \in DOMAIN Uppers : Uppers[i] = c]
    ELSE c

\* str.lower()
Lower(s) == [i \in DOMAIN s |-> LowerChar(s[i])]

\* re.search(r'[a-z]', word)
HasAlpha(s) == \E i \in DOMAIN s : s[i] \in Range(Lowers)

\* str.strip() leaves nothing
IsBlank(txt) == \A i \in DOMAIN txt : txt[i].is_space

\* ---------------------------------------------------------------- tokens
\* A spaCy Token as the linguistic model yields it: its text, its lemma and
\* the lexical flags extract_words_from_text reads.
Tok(t, l) ==
    [text |-> t, lemma_ |-> l, is_stop |-> FALSE, is_punct |-> FALSE,
     is_digit |-> FALSE, like_num |-> FALSE, is_space |-> FALSE]

TokThe == [Tok(<<"T","h","e">>, <<"t","h","e">>) EXCEPT !.is_stop = TRUE]
TokUsed == [Tok(<<"u","s","e","d">>, <<"u","s","e">>) EXCEPT !.is_stop = TRUE]
TokDot == [Tok(<<".">>, <<".">>) EXCEPT !.is_punct = TRUE]
TokTen == [Tok(<<"t","e","n">>, <<"t","e","n">>) EXCEPT !.like_num = TRUE]
TokSpace == [Tok(<<" "," ">>, <<" "," ">>) EXCEPT !.is_space = TRUE]
TokPlus == Tok(<<"+","+","+">>, <<"+","+","+">>)
TokOx == Tok(<<"o","x">>, <<"o","x">>)
TokCats == Tok(<<"c","a","t","s">>, <<"c","a","t">>)
TokCat == Tok(<<"C","a","t">>, <<"C","a","t">>)
TokRan == Tok(<<"r","a","n">>, <<"r","u","n">>)
TokSwiftly == Tok(<<"s","w","i","f","t","l","y">>, <<"s","w","i","f","t","l","y">>)
TokSat == Tok(<<"s","a","t">>, <<"s","i","t">>)

Tokens ==
    {TokThe, TokUsed, TokDot, TokTen, TokSpace, TokPlus, TokOx,
     TokCats, TokCat, TokRan, TokSwiftly}

WCat == <<"c","a","t">>
WRun == <<"r","u","n">>
WSwiftly == <<"s","w","i","f","t","l","y">>
LexWords == {WCat, WRun, WSwiftly}

\* ------------------------------------------------------ word_processing.py
\* The word-forms of the stopwords among the tokens.
StopWords == {<<"t","h","e">>, <<"u","s","e","d">>}

\* ExtractToken lemmatizing first and testing the lemma against the stopwords.
ExtractToken_lemma_stop(token, min_length, filter_stopwords, filter_punctuation, filter_numbers, lemmatize) ==
    IF filter_stopwords /\ Lower(token.lemma_) \in StopWords THEN None
    ELSE IF filter_punctuation /\ token.is_punct THEN None
    ELSE IF filter_numbers /\ (token.is_digit \/ token.like_num) THEN None
    ELSE IF token.is_space THEN None
    ELSE LET word == IF lemmatize THEN Lower(token.lemma_) ELSE Lower(token.text)
         IN  IF Len(word) < min_length THEN None
             ELSE IF ~HasAlpha(word) THEN None
             ELSE Some(word)

\* The loop body of extract_words_from_text for one token: the word-form it
\* appends, or None when the token is skipped.
ExtractToken(token, min_length, filter_stopwords, filter_punctuation, filter_numbers, lemmatize) ==
    IF filter_stopwords /\ token.is_stop THEN None
    ELSE IF filter_punctuation /\ token.is_punct THEN None
    ELSE IF filter_numbers /\ (token.is_digit \/ token.like_num) THEN None
    ELSE IF token.is_space THEN None
    ELSE LET word == IF lemmatize THEN Lower(token.lemma_) ELSE Lower(token.text)
         IN  IF Len(word) < min_length THEN None
             ELSE IF ~HasAlpha(word) THEN None
             ELSE Some(word)

RECURSIVE ExtractLoop(_, _, _, _, _, _)
ExtractLoop(doc, min_length, filter_stopwords, filter_punctuation, filter_numbers, lemmatize) ==
    IF doc = <<>> THEN <<>>
    ELSE ExtractToken(Head(doc), min_length, filter_stopwords,
                      filter_punctuation, filter_numbers, lemmatize)
         \o ExtractLoop(Tail(doc), min_length, filter_stopwords,
                        filter_punctuation, filter_numbers, lemmatize)

\* extract_words_from_text once the model is loaded (the blank-text return
\* comes first, before the model is touched).
extract_words_from_text(txt, min_length) ==
    IF IsBlank(txt) THEN <<>>
    ELSE ExtractLoop(txt, min_length, TRUE, TRUE, TRUE, TRUE)

\* CounterOf opening a new entry for every occurrence of a word.
RECURSIVE CounterOf_no_merge(_, _)
CounterOf_no_merge(words, acc) ==
    IF words = <<>> THEN acc
    ELSE CounterOf_no_merge(Tail(words), Append(acc, [word |-> Head(words), frequency |-> 1]))

\* CounterOf leaving a word's count at 1 when the word occurs again.
RECURSIVE CounterOf_no_increment(_, _)
CounterOf_no_increment(words, acc) ==
    IF words = <<>> THEN acc
    ELSE LET w == Head(words) IN
         IF \E i \in DOMAIN acc : acc[i].word = w
         THEN CounterOf_no_increment(Tail(words), acc)
         ELSE CounterOf_no_increment(Tail(words), Append(acc, [word |-> w, frequency |-> 1]))

\* dict(Counter(words)): one entry per distinct word, in order of first
\* occurrence, with its number of occurrences.
RECURSIVE CounterOf(_, _)
CounterOf(words, acc) ==
    IF words = <<>> THEN acc
    ELSE LET w == Head(words) IN
         IF \E i \in DOMAIN acc : acc[i].word = w
         THEN CounterOf(Tail(words),
                        [i \in DOMAIN acc |->
                            IF acc[i].word = w
                            THEN [acc[i] EXCEPT !.frequency = @ + 1]
                            ELSE acc[i]])
         ELSE CounterOf(Tail(words), Append(acc, [word |-> w, frequency |-> 1]))

calculate_word_frequency(txt, min_length) ==
    CounterOf(extract_words_from_text(txt, min_length), <<>>)

\* ------------------------------------------------------- the grade_words table
MetaELA == [definition |-> "def-ela", example |-> Some("ex-ela"), subject |-> Some("ELA")]
MetaScience == [definition |-> "def-science", example |-> None, subject |-> Some("Science")]
Metas == {MetaELA, MetaScience}
Grades == MinGrade..MaxGrade

GradeWord(w, g, m) ==
    [word |-> w, grade_level |-> g, definition |-> m.definition,
     example |-> m.example, subject |-> m.subject]

GradeWordRows(ws) == {GradeWord(w, g, m) : w \in ws, g \in Grades, m \in Metas}

\* Every order in which a query without ORDER BY may return the rows S.
Orderings(S) ==
    {s \in [1..Cardinality(S) -> S] : \A i, j \in 1..Cardinality(S) : s[i] = s[j] => i = j}

\* select(GradeWord).where(GradeWord.word.in_(unique_words))
QueryRows(table, unique_words) == {r \in table : r.word \in unique_words}

\* The orders of the returned rows that can differ in their effect on the loop
\* that builds word_map: an iteration reads and writes only the entry of its
\* own row's word, so only the relative order of the rows of one word counts.
\* The rows are taken word after word, the rows of a word in every order.
RECURSIVE ResultOrders(_)
ResultOrders(rows) ==
    IF rows = {} THEN {<<>>}
    ELSE LET word_key == Lower((CHOOSE r \in rows : TRUE).word)
             same == {r \in rows : Lower(r.word) = word_key}
         IN  {first \o rest : first \in Orderings(same), rest \in ResultOrders(rows \ same)}

\* ------------------------------------------------- vocabulary_analysis.py
GradeInfo(grade_word) ==
    [grade_level |-> grade_word.grade_level, definition |-> grade_word.definition,
     example |-> grade_word.example, subject |-> grade_word.subject]

\* MapRow keeping the highest grade level instead of the lowest.
MapRow_highest(word_map, grade_word) ==
    LET word_key == Lower(grade_word.word) IN
    IF word_key \in DOMAIN word_map
    THEN IF grade_word.grade_level > word_map[word_key].grade_level
         THEN [word_map EXCEPT ![word_key] = GradeInfo(grade_word)]
         ELSE word_map
    ELSE (word_key :> GradeInfo(grade_word)) @@ word_map

\* One iteration of the loop that builds word_map.
MapRow(word_map, grade_word) ==
    LET word_key == Lower(grade_word.word) IN
    IF word_key \in DOMAIN word_map
    THEN IF grade_word.grade_level < word_map[word_key].grade_level
         THEN [word_map EXCEPT ![word_key] = GradeInfo(grade_word)]
         ELSE word_map
    ELSE (word_key :> GradeInfo(grade_word)) @@ word_map

RECURSIVE MapLoop(_, _)
MapLoop(results, word_map) ==
    IF results = <<>> THEN word_map
    ELSE MapLoop(Tail(results), MapRow(word_map, Head(results)))

EmptyMap == [k \in {} |-> None]

\* map_words_to_grades, given the rows in the order the query returned them.
map_words_to_grades(words, results) ==
    IF words = <<>> THEN EmptyMap ELSE MapLoop(results, EmptyMap)

\* One query per word of the list instead of one batched query.
QueriesIssued_per_word(words) == Len(words)

\* The queries map_words_to_grades issues: none for an empty list, otherwise
\* the one batched select ... where word in (unique_words).
QueriesIssued(words) == IF words = <<>> THEN 0 ELSE 1

\* The words list the caller passes: list(word_frequency.keys()).
Keys(word_frequency) == [i \in DOMAIN word_frequency |-> word_frequency[i].word]

\* set(word.lower() for word in words)
UniqueWords(words) == {Lower(words[i]) : i \in DOMAIN words}

\* categorize_word without its AT branch: an equal grade falls through to UNKNOWN.
categorize_word_no_at(word_grade, student_grade) ==
    IF word_grade = None THEN "unknown"
    ELSE IF word_grade[1] < student_grade THEN "below"
    ELSE IF word_grade[1] > student_grade THEN "above"
    ELSE "unknown"

\* categorize_word comparing with <= : a word at the student's grade is BELOW.
categorize_word_le(word_grade, student_grade) ==
    IF word_grade = None THEN "unknown"
    ELSE IF word_grade[1] <= student_grade THEN "below"
    ELSE IF word_grade[1] = student_grade THEN "at"
    ELSE "above"

categorize_word(word_grade, student_grade) ==
    IF word_grade = None THEN "unknown"
    ELSE IF word_grade[1] < student_grade THEN "below"
    ELSE IF word_grade[1] = student_grade THEN "at"
    ELSE "above"

\* Python's round(num / den, digits), as an integer count of 10^-digits.
\* Ties go to the even neighbour; a tie of a quotient that is not exactly
\* representable needs den >= 20 (1 digit) or den >= 32 (4 digits).
Round(num, den, digits) ==
    LET scaled == num * Pow10(digits)
        q == scaled \div den
        r == scaled % den
    IN  IF 2 * r < den THEN q
        ELSE IF 2 * r > den THEN q + 1
        ELSE IF q % 2 = 0 THEN q ELSE q + 1

Count(seq, x) == Cardinality({i \in DOMAIN seq : seq[i] = x})

\* calculate_grade_distribution rounding to 2 decimals instead of 4.
calculate_grade_distribution_2dp(word_grades) ==
    IF word_grades = <<>> THEN [g \in Grades |-> 0]
    ELSE [g \in Grades |->
            Round(Count(word_grades, g), Len(word_grades), DistributionDigits - 2)
                * Pow10(2)]

calculate_grade_distribution(word_grades) ==
    IF word_grades = <<>> THEN [g \in Grades |-> 0]
    ELSE LET total == Len(word_grades) IN
         [g \in Grades |->
            IF total > 0 THEN Round(Count(word_grades, g), total, DistributionDigits)
            ELSE 0]

\* calculate_average_grade_level cutting the mean off after 1 decimal.
calculate_average_grade_level_floor(word_grades) ==
    IF word_grades = <<>> THEN None
    ELSE Some((SumSeq(word_grades) * Pow10(AverageDigits)) \div Len(word_grades))

calculate_average_grade_level(word_grades) ==
    IF word_grades = <<>> THEN None
    ELSE Some(Round(SumSeq(word_grades), Len(word_grades), AverageDigits))

\* sort key of challenging_words.sort: (-grade_level if grade_level else 0, -frequency)
SortKey(x) ==
    <<IF x.grade_level # None /\ x.grade_level[1] # 0 THEN 0 - x.grade_level[1] ELSE 0,
      0 - x.frequency>>

KeyLess(a, b) ==
    \/ SortKey(a)[1] < SortKey(b)[1]
    \/ SortKey(a)[1] = SortKey(b)[1] /\ SortKey(a)[2] < SortKey(b)[2]

\* InsertSorted putting x before the elements of equal key: an unstable sort.
RECURSIVE InsertSorted_before_ties(_, _)
InsertSorted_before_ties(s, x) ==
    IF s = <<>> THEN <<x>>
    ELSE IF ~KeyLess(Head(s), x) THEN <<x>> \o s
    ELSE <<Head(s)>> \o InsertSorted_before_ties(Tail(s), x)

\* list.sort is stable: x goes after every element whose key is not greater.
RECURSIVE InsertSorted(_, _)
InsertSorted(s, x) ==
    IF s = <<>> THEN <<x>>
    ELSE IF KeyLess(x, Head(s)) THEN <<x>> \o s
    ELSE <<Head(s)>> \o InsertSorted(Tail(s), x)

RECURSIVE SortLoop(_, _)
SortLoop(s, sorted) ==
    IF s = <<>> THEN sorted
    ELSE SortLoop(Tail(s), InsertSorted(sorted, Head(s)))

SortChallenging(s) == SortLoop(s, <<>>)

\* The local variables of analyze_vocabulary before its loop over word_frequency.
EmptyLoop ==
    [word_details |-> <<>>, challenging_words |-> <<>>, analyzed_grades |-> <<>>,
     below_count |-> 0, at_count |-> 0, above_count |-> 0, unknown_count |-> 0]

\* AnalyzeWord appending a word's grade once per occurrence of the word.
AnalyzeWord_weighted(acc, entry, word_map, student_grade) ==
    LET word_lower == Lower(entry.word)
        found == word_lower \in DOMAIN word_map
        grade_level == IF found THEN Some(word_map[word_lower].grade_level) ELSE None
        category == categorize_word(grade_level, student_grade)
        result ==
            [word |-> entry.word, frequency |-> entry.frequency,
             grade_level |-> grade_level,
             definition |-> IF found THEN Some(word_map[word_lower].definition) ELSE None,
             example |-> IF found THEN word_map[word_lower].example ELSE None,
             subject |-> IF found THEN word_map[word_lower].subject ELSE None,
             category |-> category]
    IN  [word_details |-> Append(acc.word_details, result),
         challenging_words |->
            IF category = "above" THEN Append(acc.challenging_words, result)
            ELSE acc.challenging_words,
         analyzed_grades |->
            IF found
            THEN acc.analyzed_grades \o [k \in 1..entry.frequency |-> grade_level[1]]
            ELSE acc.analyzed_grades,
         below_count |-> acc.below_count + (IF category = "below" THEN 1 ELSE 0),
         at_count |-> acc.at_count + (IF category = "at" THEN 1 ELSE 0),
         above_count |-> acc.above_count + (IF category = "above" THEN 1 ELSE 0),
         unknown_count |->
            acc.unknown_count + (IF category \in {"below", "at", "above"} THEN 0 ELSE 1)]

\* One iteration of the loop over word_frequency.items().
AnalyzeWord(acc, entry, word_map, student_grade) ==
    LET word_lower == Lower(entry.word)
        found == word_lower \in DOMAIN word_map
        grade_level == IF found THEN Some(word_map[word_lower].grade_level) ELSE None
        category == categorize_word(grade_level, student_grade)
        result ==
            [word |-> entry.word, frequency |-> entry.frequency,
             grade_level |-> grade_level,
             definition |-> IF found THEN Some(word_map[word_lower].definition) ELSE None,
             example |-> IF found THEN word_map[word_lower].example ELSE None,
             subject |-> IF found THEN word_map[word_lower].subject ELSE None,
             category |-> category]
    IN  [word_details |-> Append(acc.word_details, result),
         challenging_words |->
            IF category = "above" THEN Append(acc.challenging_words, result)
            ELSE acc.challenging_words,
         analyzed_grades |->
            IF found THEN Append(acc.analyzed_grades, grade_level[1])
            ELSE acc.analyzed_grades,
         below_count |-> acc.below_count + (IF category = "below" THEN 1 ELSE 0),
         at_count |-> acc.at_count + (IF category = "at" THEN 1 ELSE 0),
         above_count |-> acc.above_count + (IF category = "above" THEN 1 ELSE 0),
         unknown_count |->
            acc.unknown_count + (IF category \in {"below", "at", "above"} THEN 0 ELSE 1)]

RECURSIVE AnalyzeLoop(_, _, _, _)
AnalyzeLoop(word_frequency, acc, word_map, student_grade) ==
    IF word_frequency = <<>> THEN acc
    ELSE AnalyzeLoop(Tail(word_frequency),
                     AnalyzeWord(acc, Head(word_frequency), word_map, student_grade),
                     word_map, student_grade)

\* The field constraints of WordAnalysisResult (models/analysis.py).
ValidWordResult(r) ==
    /\ r.frequency >= 1
    /\ r.grade_level # None => r.grade_level[1] \in MinGrade..MaxGrade

\* Statistics taking every unique word as analyzed.
Statistics_all_analyzed(total_words, unique_words, acc) ==
    [total_words |-> total_words,
     unique_words |-> unique_words,
     analyzed_words |-> unique_words,
     unknown_words |-> acc.unknown_count,
     unknown_percentage |->
        IF unique_words > 0 THEN Round(acc.unknown_count, unique_words, DistributionDigits)
        ELSE 0,
     average_grade_level |-> calculate_average_grade_level(acc.analyzed_grades),
     below_grade_count |-> acc.below_count,
     at_grade_count |-> acc.at_count,
     above_grade_count |-> acc.above_count]

\* Statistics dividing the unknown count by total_words instead of unique_words.
Statistics_per_total(total_words, unique_words, acc) ==
    [total_words |-> total_words,
     unique_words |-> unique_words,
     analyzed_words |-> Len(acc.analyzed_grades),
     unknown_words |-> acc.unknown_count,
     unknown_percentage |->
        IF unique_words > 0 THEN Round(acc.unknown_count, total_words, DistributionDigits)
        ELSE 0,
     average_grade_level |-> calculate_average_grade_level(acc.analyzed_grades),
     below_grade_count |-> acc.below_count,
     at_grade_count |-> acc.at_count,
     above_grade_count |-> acc.above_count]

\* Step 4: VocabularyStatistics(...)
Statistics(total_words, unique_words, acc) ==
    [total_words |-> total_words,
     unique_words |-> unique_words,
     analyzed_words |-> Len(acc.analyzed_grades),
     unknown_words |-> acc.unknown_count,
     unknown_percentage |->
        IF unique_words > 0 THEN Round(acc.unknown_count, unique_words, DistributionDigits)
        ELSE 0,
     average_grade_level |-> calculate_average_grade_level(acc.analyzed_grades),
     below_grade_count |-> acc.below_count,
     at_grade_count |-> acc.at_count,
     above_grade_count |-> acc.above_count]

\* The field constraints of VocabularyStatistics, GradeDistribution and
\* VocabularyProfile (models/analysis.py); fractions in ten-thousandths,
\* the average in tenths.
ValidStatistics(st) ==
    /\ st.total_words >= 0 /\ st.unique_words >= 0
    /\ st.analyzed_words >= 0 /\ st.unknown_words >= 0
    /\ st.unknown_percentage \in 0..Pow10(DistributionDigits)
    /\ st.average_grade_level # None =>
          /\ st.average_grade_level[1] >= MinGrade * Pow10(AverageDigits)
          /\ st.average_grade_level[1] <= MaxGrade * Pow10(AverageDigits)
    /\ st.below_grade_count >= 0 /\ st.at_grade_count >= 0 /\ st.above_grade_count >= 0

ValidDistribution(d) == \A g \in Grades : d[g] \in 0..Pow10(DistributionDigits)

\* VocabularyProfile without the ge/le constraint on student_grade_level.
ValidProfile_any(student_grade) == TRUE

ValidProfile(student_grade) == student_grade \in MinGrade..MaxGrade

\* The slice [:n] left out: the whole list is kept.
Truncate_keep_all(s, n) == s

\* challenging_words[:20]
Truncate(s, n) == SubSeq(s, 1, IF Len(s) < n THEN Len(s) ELSE n)

\* Steps 5 and 6: the profile analyze_vocabulary returns.
Profile(student_grade, total_words, unique_words, acc) ==
    [student_grade_level |-> student_grade,
     statistics |-> Statistics(total_words, unique_words, acc),
     grade_distribution |-> calculate_grade_distribution(acc.analyzed_grades),
     challenging_words |-> Truncate(acc.challenging_words, ChallengingLimit),
     word_details |-> acc.word_details]

\* What a call hands its caller.
NoOutcome == [kind |-> "none"]
Returned(profile) == [kind |-> "profile", profile |-> profile]
\* The failure of a stage leaving analyze_vocabulary as it is, not wrapped.
Raised_unwrapped(cause) == [kind |-> "error", error |-> cause, cause |-> cause]

\* except Exception as e: raise VocabularyAnalysisError(...) from e
Raised(cause) == [kind |-> "error", error |-> "VocabularyAnalysisError", cause |-> cause]

\* ------------------------------------------------------------------ state
VARIABLES
    text,                 \* the document: the tokens the linguistic model yields
    student_grade_level,  \* argument of analyze_vocabulary
    min_word_length,      \* argument of analyze_vocabulary
    grade_words,          \* contents of the grade_words table (read-only)
    nlp_model,            \* word_processing._nlp_model, the cached model
    pc,                   \* position of the call in analyze_vocabulary
    word_frequency,       \* local: dict word -> count, in insertion order
    word_map,             \* local: result of map_words_to_grades
    loop,                 \* locals after the loop over word_frequency
    outcome,              \* what the current call returned or raised
    prev,                 \* outcome of the first call, once it is repeated
    calls,                \* number of calls started
    lookups,              \* lexicon queries issued by the current call
    spacy,                \* word_processing.spacy: the library, None if not installed
    callers,              \* the callers of load_spacy_model: position and locals
    loads,                \* runs of spacy.load so far
    invocations,          \* concurrent calls of analyze_vocabulary: arguments and locals
    vocab_profile,        \* a VocabularyProfile a caller holds after analyze_vocabulary
    derived,              \* what the last operation on that profile returned
    document,             \* the committed documents row: its status
    analysis_results,     \* the committed analysis_results rows, oldest first
    vocabulary_history,   \* the committed vocabulary_history rows, oldest first
    request               \* the request being served: position, locals, response

vars ==
    <<text, student_grade_level, min_word_length, grade_words, nlp_model, pc,
      word_frequency, word_map, loop, outcome, prev, calls, lookups,
      spacy, callers, loads, invocations,
      vocab_profile, derived, document, analysis_results, vocabulary_history, request>>

inputs == <<text, student_grade_level, min_word_length, grade_words>>

\* The state of the calls of analyze_vocabulary, and of those of
\* load_spacy_model made on their own.
analysis ==
    <<pc, word_frequency, word_map, loop, outcome, prev, calls, lookups>>
loader == <<spacy, callers, loads>>
concurrent == <<invocations>>
usage == <<vocab_profile, derived>>
service == <<document, analysis_results, vocabulary_history, request>>

\* ----------------------------------------------------------------- inputs
ValidGrades == MinGrade..MaxGrade
\* A grade in range and the nearest grades out of range.
StudentGrades == {MinGrade - 1, MinGrade + 2, MaxGrade + 1}

RECURSIVE SeqsUpTo(_, _)
SeqsUpTo(S, n) ==
    IF n = 0 THEN {<<>>}
    ELSE LET shorter == SeqsUpTo(S, n - 1) IN
         shorter \cup {Append(s, x) : s \in shorter, x \in S}

\* "The Cat sat. The cats ran swiftly.": cat twice, sit, run and swiftly once.
SampleText ==
    <<TokThe, TokCat, TokSat, TokDot, TokThe, TokCats, TokRan, TokSwiftly, TokDot>>

\* Its second sentence: cat, run and swiftly once each.
SampleSentence == <<TokThe, TokCats, TokRan, TokSwiftly, TokDot>>

\* run is listed for two grades, swiftly for one, cat is not listed.
SampleTable ==
    {GradeWord(WRun, 7, MetaELA), GradeWord(WRun, 9, MetaScience),
     GradeWord(WSwiftly, 9, MetaELA)}

\* Any short document against the sample table.
InputsText ==
    /\ text \in SeqsUpTo(Tokens, MaxTextLen)
    /\ student_grade_level \in StudentGrades
    /\ min_word_length = DefaultMinLength
    /\ grade_words = SampleTable

\* The sample sentence against any table of a few rows for one word
\* (several grades, several subjects at one grade).
InputsDuplicates ==
    /\ text = SampleSentence
    /\ student_grade_level \in ValidGrades
    /\ min_word_length = DefaultMinLength
    /\ grade_words \in {t \in SUBSET GradeWordRows({WRun}) : Cardinality(t) <= MaxRows}

\* The sample document, with a minimum word length at or above the default,
\* against any table listing each of its words but one at most once.
InputsGrades ==
    /\ text = SampleText
    /\ student_grade_level \in ValidGrades
    /\ min_word_length \in {DefaultMinLength, DefaultMinLength + 1}
    /\ grade_words \in
          UNION {{{GradeWord(w, f[w], MetaELA) : w \in D} : f \in [D -> Grades]} :
                 D \in SUBSET LexWords}

\* The callers of load_spacy_model, each with the model name it passes.
Callers == 1..MaxCallers
ModelNames == {"en_core_web_sm", "en_core_web_md"}
Caller(model_name) ==
    [pc |-> "idle", model_name |-> model_name, loaded |-> None, got |-> None,
     failed |-> 0]

\* A call of analyze_vocabulary that has not begun: its arguments, its
\* position and its local variables.
Invocation(txt, student_grade, min_length) ==
    [text |-> txt, student_grade_level |-> student_grade, min_word_length |-> min_length,
     pc |-> "start", word_frequency |-> <<>>, word_map |-> EmptyMap, loop |-> EmptyLoop,
     outcome |-> NoOutcome]

\* No call of analyze_vocabulary besides the one of the variables above.
NoInvocations ==
    invocations = [i \in Callers |-> Invocation(<<>>, MinGrade, DefaultMinLength)]

\* No caller of load_spacy_model besides analyze_vocabulary.
LoaderIdle ==
    /\ spacy = Some("spacy")
    /\ callers = [c \in Callers |-> Caller("en_core_web_sm")]
    /\ loads = 0

\* No profile is held by a caller.
NoUsage ==
    /\ vocab_profile = None
    /\ derived = None

\* No request is being served; the document is as upload_document left it.
NoRequest ==
    [pc |-> "idle", kind |-> "none", profile |-> None, response |-> None,
     before |-> 0, saved |-> None, served |-> 0]
ServiceIdle ==
    /\ document = [status |-> "pending"]
    /\ analysis_results = <<>>
    /\ vocabulary_history = <<>>
    /\ request = NoRequest

Init ==
    /\ NoUsage
    /\ ServiceIdle
    /\ InputsText \/ InputsDuplicates \/ InputsGrades
    /\ nlp_model = None
    /\ pc = "start"
    /\ word_frequency = <<>>
    /\ word_map = EmptyMap
    /\ loop = EmptyLoop
    /\ outcome = NoOutcome
    /\ prev = NoOutcome
    /\ calls = 1
    /\ lookups = 0
    /\ LoaderIdle
    /\ NoInvocations

\* ---------------------------------------------------------------- actions
Fail(cause) ==
    /\ outcome' = Raised(cause)
    /\ pc' = "done"

\* load_spacy_model as extract_words_from_text calls it: the cached model if
\* there is one, else the model spacy.load returns, which is cached.
LoadedModel == IF nlp_model # None THEN nlp_model ELSE Some("en_core_web_sm")

\* NoWords handing back a profile of zero counts instead of raising.
NoWords_empty_profile ==
    /\ pc = "start"
    /\ calculate_word_frequency(text, min_word_length) = <<>>
    /\ nlp_model' = IF IsBlank(text) THEN nlp_model ELSE LoadedModel
    /\ outcome' = Returned(Profile(student_grade_level, 0, 0, EmptyLoop))
    /\ pc' = "done"
    /\ UNCHANGED <<usage, service, inputs, loader, concurrent, word_frequency, word_map, loop, prev, calls, lookups>>

\* NoWords testing word_frequency only after the lexicon was queried.
NoWords_after_lookup ==
    /\ pc = "start"
    /\ calculate_word_frequency(text, min_word_length) = <<>>
    /\ nlp_model' = IF IsBlank(text) THEN nlp_model ELSE LoadedModel
    /\ lookups' = lookups + 1
    /\ Fail("VocabularyAnalysisError")
    /\ UNCHANGED <<usage, service, inputs, loader, concurrent, word_frequency, word_map, loop, prev, calls>>

\* Step 1, when the text is blank (the model is not touched) or no token
\* qualifies: word_frequency is empty and the call raises.
NoWords ==
    /\ pc = "start"
    /\ calculate_word_frequency(text, min_word_length) = <<>>
    /\ nlp_model' = IF IsBlank(text) THEN nlp_model ELSE LoadedModel
    /\ Fail("VocabularyAnalysisError")
    /\ UNCHANGED <<usage, service, inputs, loader, concurrent, word_frequency, word_map, loop, prev, calls, lookups>>

\* Step 1 when spacy.load raises on first use: the cache stays unset and
\* extract_words_from_text raises WordProcessingError.
LoadFails ==
    /\ pc = "start"
    /\ ~IsBlank(text)
    /\ nlp_model = None
    /\ Fail("WordProcessingError")
    /\ UNCHANGED <<usage, service, inputs, loader, concurrent, nlp_model, word_frequency, word_map, loop, prev, calls, lookups>>

\* Step 1: calculate_word_frequency yields at least one word.
ExtractWords ==
    /\ pc = "start"
    /\ calculate_word_frequency(text, min_word_length) # <<>>
    /\ nlp_model' = LoadedModel
    /\ word_frequency' = calculate_word_frequency(text, min_word_length)
    /\ pc' = "mapping"
    /\ UNCHANGED <<usage, service, inputs, loader, concurrent, word_map, loop, outcome, prev, calls, lookups>>

\* Step 2: map_words_to_grades; the one query returns its rows in some order.
MapWords ==
    /\ pc = "mapping"
    /\ \E results \in
          ResultOrders(QueryRows(grade_words, UniqueWords(Keys(word_frequency)))) :
          word_map' = map_words_to_grades(Keys(word_frequency), results)
    /\ lookups' = lookups + QueriesIssued(Keys(word_frequency))
    /\ pc' = "analyzing"
    /\ UNCHANGED <<usage, service, inputs, loader, concurrent, nlp_model, word_frequency, loop, outcome, prev, calls>>

\* QueryFails swallowing the error and going on with an empty word_map.
QueryFails_all_unknown ==
    /\ pc = "mapping"
    /\ lookups' = lookups + QueriesIssued(Keys(word_frequency))
    /\ word_map' = EmptyMap
    /\ pc' = "analyzing"
    /\ UNCHANGED <<usage, service, inputs, loader, concurrent, nlp_model, word_frequency, loop, outcome, prev, calls>>

\* Step 2 when session.exec raises.
QueryFails ==
    /\ pc = "mapping"
    /\ lookups' = lookups + QueriesIssued(Keys(word_frequency))
    /\ Fail("DatabaseError")
    /\ UNCHANGED <<usage, service, inputs, loader, concurrent, nlp_model, word_frequency, word_map, loop, prev, calls>>

\* Step 3: the loop over word_frequency, then the sort of challenging_words.
AnalyzeWords ==
    /\ pc = "analyzing"
    /\ LET acc == AnalyzeLoop(word_frequency, EmptyLoop, word_map, student_grade_level) IN
       IF \A i \in DOMAIN acc.word_details : ValidWordResult(acc.word_details[i])
       THEN /\ loop' = [acc EXCEPT !.challenging_words = SortChallenging(@)]
            /\ pc' = "statistics"
            /\ UNCHANGED outcome
       ELSE /\ Fail("ValidationError")
            /\ UNCHANGED loop
    /\ UNCHANGED <<usage, service, inputs, loader, concurrent, nlp_model, word_frequency, word_map, prev, calls, lookups>>

\* Steps 4 to 6: statistics, distribution, VocabularyProfile; the models'
\* field constraints are checked on construction.
BuildProfile ==
    /\ pc = "statistics"
    /\ LET total_words == SumSeq([i \in DOMAIN word_frequency |-> word_frequency[i].frequency])
           unique_words == Len(word_frequency)
           profile == Profile(student_grade_level, total_words, unique_words, loop)
       IN  IF /\ ValidStatistics(profile.statistics)
              /\ ValidDistribution(profile.grade_distribution)
              /\ ValidProfile(student_grade_level)
           THEN outcome' = Returned(profile)
           ELSE outcome' = Raised("ValidationError")
    /\ pc' = "done"
    /\ UNCHANGED <<usage, service, inputs, loader, concurrent, nlp_model, word_frequency, word_map, loop, prev, calls, lookups>>

\* The caller analyses the same text, grade and table a second time.
Reanalyze ==
    /\ pc = "done"
    /\ prev = NoOutcome
    /\ prev' = outcome
    /\ calls' = calls + 1
    /\ pc' = "start"
    /\ word_frequency' = <<>>
    /\ word_map' = EmptyMap
    /\ loop' = EmptyLoop
    /\ outcome' = NoOutcome
    /\ lookups' = 0
    /\ UNCHANGED <<usage, service, inputs, loader, concurrent, nlp_model>>

Next ==
    \/ NoWords
    \/ LoadFails
    \/ ExtractWords
    \/ MapWords
    \/ QueryFails
    \/ AnalyzeWords
    \/ BuildProfile
    \/ Reanalyze

Spec == Init /\ [][Next]_vars

\* ------------------------------------------- load_spacy_model, concurrently
\* The object spacy.load returns: a new one on every run.
Language(model_name, load) == [model_name |-> model_name, load |-> load]

\* if spacy is None: raise WordProcessingError
NoSpacy(c) ==
    /\ callers[c].pc = "idle"
    /\ spacy = None
    /\ callers' = [callers EXCEPT ![c].pc = "raised"]
    /\ UNCHANGED <<usage, service, inputs, analysis, concurrent, nlp_model, spacy, loads>>

\* if _nlp_model is not None: return _nlp_model
CheckCache(c) ==
    /\ callers[c].pc = "idle"
    /\ spacy # None
    /\ IF nlp_model # None
       THEN callers' = [callers EXCEPT ![c].pc = "returned", ![c].got = nlp_model]
       ELSE callers' = [callers EXCEPT ![c].pc = "loading"]
    /\ UNCHANGED <<usage, service, inputs, analysis, concurrent, nlp_model, spacy, loads>>

\* spacy.load(model_name) returns a model.
SpacyLoad(c) ==
    /\ callers[c].pc = "loading"
    /\ loads' = loads + 1
    /\ callers' = [callers EXCEPT ![c].pc = "storing",
                                  ![c].loaded = Some(Language(callers[c].model_name, loads + 1))]
    /\ UNCHANGED <<usage, service, inputs, analysis, concurrent, nlp_model, spacy>>

\* SpacyLoadRaises leaving a half-built model in the cache.
SpacyLoadRaises_partial(c) ==
    /\ callers[c].pc = "loading"
    /\ callers[c].failed < MaxFailures
    /\ callers' = [callers EXCEPT ![c].pc = "raised", ![c].failed = @ + 1]
    /\ nlp_model' = Some(Language(callers[c].model_name, 0))
    /\ UNCHANGED <<usage, service, inputs, analysis, concurrent, spacy, loads>>

\* spacy.load(model_name) raises: WordProcessingError, the cache untouched.
\* failed counts the loads that failed for this caller.
SpacyLoadRaises(c) ==
    /\ callers[c].pc = "loading"
    /\ callers[c].failed < MaxFailures
    /\ callers' = [callers EXCEPT ![c].pc = "raised", ![c].failed = @ + 1]
    /\ UNCHANGED <<usage, service, inputs, analysis, concurrent, nlp_model, spacy, loads>>

\* _nlp_model = <the model spacy.load returned>
StoreModel(c) ==
    /\ callers[c].pc = "storing"
    /\ nlp_model' = callers[c].loaded
    /\ callers' = [callers EXCEPT ![c].pc = "stored"]
    /\ UNCHANGED <<usage, service, inputs, analysis, concurrent, spacy, loads>>

\* return _nlp_model
ReturnModel(c) ==
    /\ callers[c].pc = "stored"
    /\ callers' = [callers EXCEPT ![c].pc = "returned", ![c].got = nlp_model]
    /\ UNCHANGED <<usage, service, inputs, analysis, concurrent, nlp_model, spacy, loads>>

\* The caller, back from a call, calls load_spacy_model again, with the
\* model name it passed before.
CallAgain(c) ==
    /\ callers[c].pc \in {"returned", "raised"}
    /\ callers' = [callers EXCEPT
                       ![c] = [Caller(callers[c].model_name) EXCEPT !.failed = callers[c].failed]]
    /\ UNCHANGED <<usage, service, inputs, analysis, concurrent, nlp_model, spacy, loads>>

\* Threads of one process call load_spacy_model for the first time, each
\* with a model name; no analysis is in progress.
InitLoad ==
    /\ NoUsage
    /\ ServiceIdle
    /\ text = SampleSentence
    /\ student_grade_level = MinGrade
    /\ min_word_length = DefaultMinLength
    /\ grade_words = SampleTable
    /\ nlp_model = None
    /\ pc = "start"
    /\ word_frequency = <<>>
    /\ word_map = EmptyMap
    /\ loop = EmptyLoop
    /\ outcome = NoOutcome
    /\ prev = NoOutcome
    /\ calls = 1
    /\ lookups = 0
    /\ spacy \in {None, Some("spacy")}
    /\ callers \in {[c \in Callers |-> Caller(names[c])] : names \in [Callers -> ModelNames]}
    /\ loads = 0
    /\ NoInvocations

NextLoad ==
    \E c \in Callers :
        \/ NoSpacy(c)
        \/ CheckCache(c)
        \/ SpacyLoad(c)
        \/ SpacyLoadRaises(c)
        \/ StoreModel(c)
        \/ ReturnModel(c)
        \/ CallAgain(c)

SpecLoad == InitLoad /\ [][NextLoad]_vars

\* ---------------------------------------- analyze_vocabulary, concurrently
\* The steps of analyze_vocabulary taken by call i on its own arguments and
\* locals; the calls share the cached model and read the same table.
InvFail(i, cause) ==
    invocations' = [invocations EXCEPT ![i].outcome = Raised(cause), ![i].pc = "done"]

InvNoWords(i) ==
    LET inv == invocations[i] IN
    /\ inv.pc = "start"
    /\ calculate_word_frequency(inv.text, inv.min_word_length) = <<>>
    /\ nlp_model' = IF IsBlank(inv.text) THEN nlp_model ELSE LoadedModel
    /\ InvFail(i, "VocabularyAnalysisError")
    /\ UNCHANGED <<usage, service, inputs, analysis, loader>>

InvLoadFails(i) ==
    LET inv == invocations[i] IN
    /\ inv.pc = "start"
    /\ ~IsBlank(inv.text)
    /\ nlp_model = None
    /\ InvFail(i, "WordProcessingError")
    /\ UNCHANGED <<usage, service, inputs, analysis, loader, nlp_model>>

InvExtractWords(i) ==
    LET inv == invocations[i] IN
    /\ inv.pc = "start"
    /\ calculate_word_frequency(inv.text, inv.min_word_length) # <<>>
    /\ nlp_model' = LoadedModel
    /\ invocations' =
          [invocations EXCEPT
              ![i].word_frequency = calculate_word_frequency(inv.text, inv.min_word_length),
              ![i].pc = "mapping"]
    /\ UNCHANGED <<usage, service, inputs, analysis, loader>>

\* InvMapWords keeping word_map in a place all calls share.
InvMapWords_shared(i) ==
    LET inv == invocations[i] IN
    /\ inv.pc = "mapping"
    /\ \E results \in
          ResultOrders(QueryRows(grade_words, UniqueWords(Keys(inv.word_frequency)))) :
          invocations' =
              [j \in Callers |->
                  [invocations[j] EXCEPT
                      !.word_map = map_words_to_grades(Keys(inv.word_frequency), results),
                      !.pc = IF j = i THEN "analyzing" ELSE @]]
    /\ UNCHANGED <<usage, service, inputs, analysis, loader, nlp_model>>

InvMapWords(i) ==
    LET inv == invocations[i] IN
    /\ inv.pc = "mapping"
    /\ \E results \in
          ResultOrders(QueryRows(grade_words, UniqueWords(Keys(inv.word_frequency)))) :
          invocations' =
              [invocations EXCEPT
                  ![i].word_map = map_words_to_grades(Keys(inv.word_frequency), results),
                  ![i].pc = "analyzing"]
    /\ UNCHANGED <<usage, service, inputs, analysis, loader, nlp_model>>

InvQueryFails(i) ==
    /\ invocations[i].pc = "mapping"
    /\ InvFail(i, "DatabaseError")
    /\ UNCHANGED <<usage, service, inputs, analysis, loader, nlp_model>>

InvAnalyzeWords(i) ==
    LET inv == invocations[i]
        acc == AnalyzeLoop(inv.word_frequency, EmptyLoop, inv.word_map, inv.student_grade_level)
    IN
    /\ inv.pc = "analyzing"
    /\ IF \A k \in DOMAIN acc.word_details : ValidWordResult(acc.word_details[k])
       THEN invocations' =
               [invocations EXCEPT
                   ![i].loop = [acc EXCEPT !.challenging_words = SortChallenging(@)],
                   ![i].pc = "statistics"]
       ELSE InvFail(i, "ValidationError")
    /\ UNCHANGED <<usage, service, inputs, analysis, loader, nlp_model>>

InvBuildProfile(i) ==
    LET inv == invocations[i]
        total_words ==
            SumSeq([k \in DOMAIN inv.word_frequency |-> inv.word_frequency[k].frequency])
        unique_words == Len(inv.word_frequency)
        profile == Profile(inv.student_grade_level, total_words, unique_words, inv.loop)
    IN
    /\ inv.pc = "statistics"
    /\ IF /\ ValidStatistics(profile.statistics)
          /\ ValidDistribution(profile.grade_distribution)
          /\ ValidProfile(inv.student_grade_level)
       THEN invocations' =
               [invocations EXCEPT ![i].outcome = Returned(profile), ![i].pc = "done"]
       ELSE InvFail(i, "ValidationError")
    /\ UNCHANGED <<usage, service, inputs, analysis, loader, nlp_model>>

\* The calls' texts: two sentences sharing a word, and one without a word.
ConcurrentTexts == {SampleSentence, <<TokCat, TokRan>>, <<TokThe, TokDot>>}
ConcurrentGrades == {MinGrade + 1, MaxGrade + 1}
ConcurrentTables == {SampleTable, SampleTable \cup {GradeWord(WRun, MinGrade + 1, MetaScience)}}

InitConcurrent ==
    /\ NoUsage
    /\ ServiceIdle
    /\ text = <<>>
    /\ student_grade_level = MinGrade
    /\ min_word_length = DefaultMinLength
    /\ grade_words \in ConcurrentTables
    /\ nlp_model = None
    /\ pc = "start"
    /\ word_frequency = <<>>
    /\ word_map = EmptyMap
    /\ loop = EmptyLoop
    /\ outcome = NoOutcome
    /\ prev = NoOutcome
    /\ calls = 1
    /\ lookups = 0
    /\ LoaderIdle
    /\ invocations \in
          {[i \in Callers |-> Invocation(txt[i], grade[i], DefaultMinLength)] :
              txt \in [Callers -> ConcurrentTexts], grade \in [Callers -> ConcurrentGrades]}

NextConcurrent ==
    \E i \in Callers :
        \/ InvNoWords(i)
        \/ InvLoadFails(i)
        \/ InvExtractWords(i)
        \/ InvMapWords(i)
        \/ InvQueryFails(i)
        \/ InvAnalyzeWords(i)
        \/ InvBuildProfile(i)

SpecConcurrent == InitConcurrent /\ [][NextConcurrent]_vars

\* ------------------------------------------------- documents of many words
\* A document of n distinct five-letter words, the words 3, 6, .. up to the
\* r-th such word occurring a second time, and a table that lists each of the
\* n words once, at one of the `span` highest grades.
LongWord(k) == <<"w", "o", "r", "d", Lowers[k]>>
LongTok(k) == Tok(LongWord(k), LongWord(k))
LongText(n, r) == [i \in 1..n |-> LongTok(i)] \o [i \in 1..r |-> LongTok(3 * i)]
LongTable(n, offset, span) ==
    {GradeWord(LongWord(k), MaxGrade - ((k + offset) % span), MetaELA) : k \in 1..n}

InputsLong ==
    /\ \E n \in (ChallengingLimit - 1)..MaxLongWords, r \in 0..2, span \in 1..3 :
          \E offset \in 0..(span - 1) :
             /\ text = LongText(n, r)
             /\ grade_words = LongTable(n, offset, span)
    /\ student_grade_level \in ValidGrades
    /\ min_word_length \in {DefaultMinLength, 2 * DefaultMinLength}

InitLong ==
    /\ NoUsage
    /\ ServiceIdle
    /\ InputsLong
    /\ nlp_model = None
    /\ pc = "start"
    /\ word_frequency = <<>>
    /\ word_map = EmptyMap
    /\ loop = EmptyLoop
    /\ outcome = NoOutcome
    /\ prev = NoOutcome
    /\ calls = 1
    /\ lookups = 0
    /\ LoaderIdle
    /\ NoInvocations

SpecLong == InitLong /\ [][Next]_vars

\* ------------------------------------------- operations on a returned profile
\* Every variable of a call of analyze_vocabulary as it is before the call.
NoCall ==
    /\ nlp_model = None
    /\ pc = "start"
    /\ word_frequency = <<>>
    /\ word_map = EmptyMap
    /\ loop = EmptyLoop
    /\ outcome = NoOutcome
    /\ prev = NoOutcome
    /\ calls = 1
    /\ lookups = 0

\* The profile of a call that runs alone from start to end, the query
\* returning the rows in the order `results`.
ProfileAlone(txt, student_grade, min_length, results) ==
    LET frequency == calculate_word_frequency(txt, min_length)
        map == map_words_to_grades(Keys(frequency), results)
        acc == AnalyzeLoop(frequency, EmptyLoop, map, student_grade)
    IN  Profile(student_grade,
                SumSeq([k \in DOMAIN frequency |-> frequency[k].frequency]),
                Len(frequency),
                [acc EXCEPT !.challenging_words = SortChallenging(@)])

ProfilesAlone(txt, student_grade, min_length) ==
    {ProfileAlone(txt, student_grade, min_length, results) :
        results \in ResultOrders(QueryRows(grade_words,
                        UniqueWords(Keys(calculate_word_frequency(txt, min_length)))))}

\* class WordCategory
WordCategories == {"below", "at", "above", "unknown"}

\* words.sort(key=lambda x: -x.frequency): most frequent first, words of one
\* frequency in the order they had.
RECURSIVE InsertByFrequency(_, _)
InsertByFrequency(sorted, w) ==
    IF sorted = <<>> THEN <<w>>
    ELSE IF Head(sorted).frequency >= w.frequency
         THEN <<Head(sorted)>> \o InsertByFrequency(Tail(sorted), w)
         ELSE <<w>> \o sorted

RECURSIVE SortByFrequency(_)
SortByFrequency(words) ==
    IF words = <<>> THEN <<>>
    ELSE InsertByFrequency(SortByFrequency(SubSeq(words, 1, Len(words) - 1)),
                           words[Len(words)])

\* [w for w in profile.word_details if w.category == category]
WordsOfCategory(p, category) ==
    LET InCategory(w) == w.category = category
    IN  SelectSeq(p.word_details, InCategory)

\* if limit: words = words[:limit]  (None and 0 both leave the list whole)
Limited(words, limit) ==
    IF limit = None \/ limit[1] = 0 THEN words
    ELSE SubSeq(words, 1, IF Len(words) < limit[1] THEN Len(words) ELSE limit[1])

\* Each operation yields the value it returns and the profile object as the
\* call leaves it.
\* get_words_by_category sorting profile.word_details itself before filtering.
get_words_by_category_in_place(p, category, limit) ==
    LET sorted == [p EXCEPT !.word_details = SortByFrequency(@)]
    IN  [profile |-> sorted,
         result |-> Limited(WordsOfCategory(sorted, category), limit)]

get_words_by_category(p, category, limit) ==
    [profile |-> p,
     result |-> Limited(SortByFrequency(WordsOfCategory(p, category)), limit)]

\* dict(Counter(word.subject for word in profile.word_details
\*              if word.subject is not None))
get_subject_breakdown(p) ==
    LET subjects == {p.word_details[i].subject[1] :
                        i \in {j \in DOMAIN p.word_details :
                                  p.word_details[j].subject # None}}
    IN  [profile |-> p,
         result |->
            [s \in subjects |->
                Cardinality({i \in DOMAIN p.word_details :
                                p.word_details[i].subject = Some(s)})]]

\* generate_recommendations: the average is in tenths and unknown_percentage
\* in ten-thousandths; x < n * 0.1 is 10 * x < n for the word counts here.
Recommendations(p) ==
    LET stats == p.statistics
        support ==
            IF /\ stats.average_grade_level # None
               /\ stats.average_grade_level[1] # 0
               /\ stats.average_grade_level[1]
                     < (p.student_grade_level - 1) * Pow10(AverageDigits)
            THEN <<"Consider providing vocabulary support - many words are below grade level">>
            ELSE <<>>
        more ==
            IF 10 * stats.above_grade_count < stats.analyzed_words
            THEN <<"Consider introducing more grade-appropriate challenging vocabulary">>
            ELSE <<>>
        less ==
            IF 10 * stats.above_grade_count > 3 * stats.analyzed_words
            THEN <<"Material may be quite challenging - consider vocabulary pre-teaching">>
            ELSE <<>>
        unknown ==
            IF 10 * stats.unknown_percentage > 3 * Pow10(DistributionDigits)
            THEN <<"Many words not in standard lists - may include specialized or advanced vocabulary">>
            ELSE <<>>
        recommendations == support \o more \o less \o unknown
    IN  IF recommendations = <<>>
        THEN <<"Vocabulary usage appears appropriate for grade level">>
        ELSE recommendations

generate_recommendations(p) == [profile |-> p, result |-> Recommendations(p)]

\* The performance level of compare_to_grade_standard.
Performance(stats, student_grade) ==
    IF stats.average_grade_level = None THEN "unknown"
    ELSE IF stats.average_grade_level[1] < (student_grade - 1) * Pow10(AverageDigits)
         THEN "below"
    ELSE IF stats.average_grade_level[1] > (student_grade + 1) * Pow10(AverageDigits)
         THEN "advanced"
    ELSE "on_level"

\* compare_to_grade_standard weighting every category 1.0.
compare_to_grade_standard_unweighted(p) ==
    LET stats == p.statistics
    IN  [profile |-> p,
         result |->
            [student_grade |-> p.student_grade_level,
             average_grade_level |-> stats.average_grade_level,
             performance |-> Performance(stats, p.student_grade_level),
             proficiency_score |->
                IF stats.analyzed_words > 0
                THEN Round(stats.below_grade_count + stats.at_grade_count
                               + stats.above_grade_count,
                           stats.analyzed_words, ScoreDigits)
                ELSE 0,
             challenging_word_count |-> Len(p.challenging_words),
             recommendations |-> Recommendations(p)]]

\* compare_to_grade_standard; the score in hundredths:
\* (0.5 * below + 1.0 * at + 1.5 * above) / analyzed_words is
\* (below + 2 * at + 3 * above) / (2 * analyzed_words).
compare_to_grade_standard(p) ==
    LET stats == p.statistics
    IN  [profile |-> p,
         result |->
            [student_grade |-> p.student_grade_level,
             average_grade_level |-> stats.average_grade_level,
             performance |-> Performance(stats, p.student_grade_level),
             proficiency_score |->
                IF stats.analyzed_words > 0
                THEN Round(stats.below_grade_count + 2 * stats.at_grade_count
                               + 3 * stats.above_grade_count,
                           2 * stats.analyzed_words, ScoreDigits)
                ELSE 0,
             challenging_word_count |-> Len(p.challenging_words),
             recommendations |-> Recommendations(p)]]

\* A caller applies one operation to the profile it holds.
Apply(op, call) ==
    /\ vocab_profile # None
    /\ vocab_profile' = Some(call.profile)
    /\ derived' = Some([op |-> op, result |-> call.result])
    /\ UNCHANGED <<service, inputs, analysis, loader, concurrent, nlp_model>>

Limits == {None, Some(0), Some(1), Some(2)}

GetWordsByCategory ==
    \E category \in WordCategories, limit \in Limits :
        Apply("get_words_by_category",
              get_words_by_category(vocab_profile[1], category, limit))

GetSubjectBreakdown ==
    Apply("get_subject_breakdown", get_subject_breakdown(vocab_profile[1]))

CompareToGradeStandard ==
    Apply("compare_to_grade_standard", compare_to_grade_standard(vocab_profile[1]))

GenerateRecommendations ==
    Apply("generate_recommendations", generate_recommendations(vocab_profile[1]))

\* Documents of up to MaxUseWords distinct words, the third possibly twice,
\* against tables listing any of the words at a low, a middle or a high
\* grade; the profile is the one analyze_vocabulary returns for them.
UseGrades == {MinGrade, MinGrade + 3, MaxGrade}
UseMeta(k) == IF k % 2 = 1 THEN MetaELA ELSE MetaScience
UseTables(n) ==
    UNION {{{GradeWord(LongWord(k), f[k], UseMeta(k)) : k \in D} : f \in [D -> UseGrades]} :
           D \in SUBSET (1..n)}

InputsUse ==
    /\ \E n \in 1..MaxUseWords, r \in 0..1 :
          /\ 3 * r <= n
          /\ text = LongText(n, r)
          /\ grade_words \in UseTables(n)
    /\ student_grade_level \in UseGrades
    /\ min_word_length = DefaultMinLength

InitUse ==
    /\ InputsUse
    /\ NoCall
    /\ LoaderIdle
    /\ NoInvocations
    /\ ServiceIdle
    /\ vocab_profile \in
          {Some(p) : p \in ProfilesAlone(text, student_grade_level, min_word_length)}
    /\ derived = None

NextUse ==
    \/ GetWordsByCategory
    \/ GetSubjectBreakdown
    \/ CompareToGradeStandard
    \/ GenerateRecommendations

SpecUse == InitUse /\ [][NextUse]_vars

\* ------------------------------------- analyze_document, get_document_analysis
\* A dict key carries the Python type it has: 6 and "6" are different keys.
IntKey(n) == <<"int", ToString(n)>>
StrKey(n) == <<"str", ToString(n)>>

\* data.get(key, default)
Get(data, key, default) == IF key \in DOMAIN data THEN data[key] ELSE default

\* GradeDistribution.to_dict: {6: self.grade_6, ..., 12: self.grade_12}
to_dict(distribution) ==
    [key \in {IntKey(g) : g \in Grades} |->
        distribution[CHOOSE g \in Grades : IntKey(g) = key]]

\* What a JSON column gives back for a dict written to it: JSON object keys
\* are strings, so int keys come back as their decimal strings.
JsonObject(data) ==
    [key \in {<<"str", k[2]>> : k \in DOMAIN data} |->
        data[CHOOSE k \in DOMAIN data : k[2] = key[2]]]

\* GradeDistribution.from_dict: data.get(6, 0.0), ..., data.get(12, 0.0)
from_dict(data) == [g \in Grades |-> Get(data, IntKey(g), 0)]

\* [word.dict() for word in words] through a JSON column and back through
\* WordAnalysisResult(**word): every field is a str, an int or None and the
\* category a str-valued enum, all of which JSON carries unchanged.
JsonWords(words) ==
    [i \in DOMAIN words |->
        [word |-> words[i].word, frequency |-> words[i].frequency,
         grade_level |-> words[i].grade_level, definition |-> words[i].definition,
         example |-> words[i].example, subject |-> words[i].subject,
         category |-> words[i].category]]

\* Step 5: the analysis_results row of a profile.
AnalysisResult(id, analyzed_at, p) ==
    [id |-> id,
     analyzed_at |-> analyzed_at,
     student_grade_level |-> p.student_grade_level,
     total_words |-> p.statistics.total_words,
     unique_words |-> p.statistics.unique_words,
     analyzed_words |-> p.statistics.analyzed_words,
     unknown_words |-> p.statistics.unknown_words,
     unknown_percentage |-> p.statistics.unknown_percentage,
     average_grade_level |-> p.statistics.average_grade_level,
     below_grade_count |-> p.statistics.below_grade_count,
     at_grade_count |-> p.statistics.at_grade_count,
     above_grade_count |-> p.statistics.above_grade_count,
     grade_distribution |-> JsonObject(to_dict(p.grade_distribution)),
     challenging_words |-> JsonWords(p.challenging_words),
     word_details |-> JsonWords(p.word_details)]

\* Step 5.5: the vocabulary_history row of a profile.
VocabularyHistory(analysis_result_id, analyzed_at, p) ==
    [analysis_result_id |-> analysis_result_id,
     analyzed_at |-> analyzed_at,
     average_grade_level |-> p.statistics.average_grade_level,
     total_words |-> p.statistics.total_words,
     unique_words |-> p.statistics.unique_words,
     grade_distribution |-> JsonObject(to_dict(p.grade_distribution))]

\* get_document_analysis: the VocabularyProfile rebuilt from a row.
RebuiltProfile(row) ==
    [student_grade_level |-> row.student_grade_level,
     statistics |->
        [total_words |-> row.total_words,
         unique_words |-> row.unique_words,
         analyzed_words |-> row.analyzed_words,
         unknown_words |-> row.unknown_words,
         unknown_percentage |-> row.unknown_percentage,
         average_grade_level |-> row.average_grade_level,
         below_grade_count |-> row.below_grade_count,
         at_grade_count |-> row.at_grade_count,
         above_grade_count |-> row.above_grade_count],
     grade_distribution |-> from_dict(row.grade_distribution),
     challenging_words |-> row.challenging_words,
     word_details |-> row.word_details]

\* order_by(AnalysisResult.analyzed_at.desc()) ... .first()
MostRecent(rows) ==
    IF rows = <<>> THEN None
    ELSE Some(CHOOSE row \in Range(rows) :
                 \A other \in Range(rows) : other.analyzed_at <= row.analyzed_at)

\* What the client receives.
Response(status_code, body) == [status_code |-> status_code, body |-> body]

\* The request ends: the response goes out and the handler's locals are gone.
Respond(response) ==
    request' = [request EXCEPT !.pc = "done", !.response = Some(response)]

\* document.status = ...; session.add(document); session.commit()
SetStatus(status) == document' = [document EXCEPT !.status = status]

ServiceFrame == UNCHANGED <<usage, inputs, analysis, loader, concurrent, nlp_model>>

\* Step 1 of analyze_document: the document is marked as processing.
StartAnalysis ==
    /\ request.pc = "idle"
    /\ request.served < MaxRequests
    /\ SetStatus("processing")
    /\ request' = [request EXCEPT !.pc = "download", !.kind = "analyze",
                                  !.profile = None, !.response = None,
                                  !.before = Len(analysis_results),
                                  !.served = @ + 1]
    /\ UNCHANGED <<analysis_results, vocabulary_history>>
    /\ ServiceFrame

\* Step 2: the file is downloaded.
Download ==
    /\ request.pc = "download"
    /\ request' = [request EXCEPT !.pc = "extract"]
    /\ UNCHANGED <<document, analysis_results, vocabulary_history>>
    /\ ServiceFrame

\* Step 2 fails: generate_presigned_download_url raises an HTTPException, or
\* requests raises and the handler raises HTTPException 500; the outer
\* `except HTTPException: raise` passes it on.
DownloadFails ==
    /\ request.pc = "download"
    /\ \E status_code \in {404, 500} : Respond(Response(status_code, None))
    /\ UNCHANGED <<document, analysis_results, vocabulary_history>>
    /\ ServiceFrame

\* Step 3: the text is extracted.
ExtractText ==
    /\ request.pc = "extract"
    /\ request' = [request EXCEPT !.pc = "analyze"]
    /\ UNCHANGED <<document, analysis_results, vocabulary_history>>
    /\ ServiceFrame

\* Step 3 fails: UnsupportedFileTypeError (400) or TextExtractionError (500).
ExtractFails ==
    /\ request.pc = "extract"
    /\ SetStatus("failed")
    /\ \E status_code \in {400, 500} : Respond(Response(status_code, None))
    /\ UNCHANGED <<analysis_results, vocabulary_history>>
    /\ ServiceFrame

\* Step 4: analyze_vocabulary returns a profile.
AnalyzeText ==
    /\ request.pc = "analyze"
    /\ \E p \in ProfilesAlone(text, student_grade_level, min_word_length) :
          /\ p.statistics.unique_words > 0
          /\ request' = [request EXCEPT !.pc = "save", !.profile = Some(p)]
    /\ UNCHANGED <<document, analysis_results, vocabulary_history>>
    /\ ServiceFrame

\* Step 4 fails: WordProcessingError or VocabularyAnalysisError (no word in
\* the text, the model or the lexicon query failing).
AnalyzeFails ==
    /\ request.pc = "analyze"
    /\ SetStatus("failed")
    /\ Respond(Response(500, None))
    /\ UNCHANGED <<analysis_results, vocabulary_history>>
    /\ ServiceFrame

\* Steps 5 to 6: both rows and the status are committed together.
SaveResults ==
    /\ request.pc = "save"
    /\ LET id == Len(analysis_results) + 1
           p == request.profile[1]
       IN  /\ analysis_results' = Append(analysis_results, AnalysisResult(id, id, p))
           /\ vocabulary_history' = Append(vocabulary_history, VocabularyHistory(id, id, p))
    /\ SetStatus("completed")
    /\ request' = [request EXCEPT !.pc = "refresh", !.saved = request.profile]
    /\ ServiceFrame

\* Steps 5 to 6 failing after the rows were flushed, the flushed rows staying
\* in the table.
SaveFails_rows_kept ==
    /\ request.pc = "save"
    /\ LET id == Len(analysis_results) + 1
           p == request.profile[1]
       IN  analysis_results' = Append(analysis_results, AnalysisResult(id, id, p))
    /\ SetStatus("failed")
    /\ Respond(Response(500, None))
    /\ UNCHANGED vocabulary_history
    /\ ServiceFrame

\* Steps 5 to 6 fail before anything is committed.  `except Exception` sets
\* the status to failed and commits: that commit goes through when the
\* failure left the session usable (building the row), and raises in turn
\* when a failed flush or commit left the transaction rolled back.
SaveFails ==
    /\ request.pc = "save"
    /\ \/ SetStatus("failed")
       \/ UNCHANGED document
    /\ Respond(Response(500, None))
    /\ UNCHANGED <<analysis_results, vocabulary_history>>
    /\ ServiceFrame

\* session.refresh(analysis_result); return profile
ReturnProfile ==
    /\ request.pc = "refresh"
    /\ request' = [request EXCEPT !.pc = "done",
                                  !.response = Some(Response(200, request.profile))]
    /\ UNCHANGED <<document, analysis_results, vocabulary_history>>
    /\ ServiceFrame

\* session.refresh raises after the commit: the database cannot be reached or
\* the transaction is aborted, so the UPDATE of `except Exception` raises too
\* and what was committed stays.
RefreshFails ==
    /\ request.pc = "refresh"
    /\ Respond(Response(500, None))
    /\ UNCHANGED <<document, analysis_results, vocabulary_history>>
    /\ ServiceFrame

\* get_document_analysis
GetDocumentAnalysis ==
    /\ request.pc = "idle"
    /\ request.served < MaxRequests
    /\ LET analysis_row == MostRecent(analysis_results)
       IN  request' =
              [request EXCEPT
                  !.pc = "done", !.kind = "get", !.profile = None,
                  !.served = @ + 1,
                  !.response =
                      IF analysis_row = None THEN Some(Response(404, None))
                      ELSE Some(Response(200, Some(RebuiltProfile(analysis_row[1]))))]
    /\ UNCHANGED <<document, analysis_results, vocabulary_history>>
    /\ ServiceFrame

\* The client is free to send its next request.
NextRequest ==
    /\ request.pc = "done"
    /\ request' = [request EXCEPT !.pc = "idle"]
    /\ UNCHANGED <<document, analysis_results, vocabulary_history>>
    /\ ServiceFrame

\* One uploaded document of one student: the sample sentence or a text
\* without any word, against the sample table with and without a tie.
ServiceTexts == {SampleSentence, <<TokThe, TokDot>>}

InitService ==
    /\ text \in ServiceTexts
    /\ student_grade_level \in {MinGrade + 1, MaxGrade}
    /\ min_word_length = DefaultMinLength
    /\ grade_words \in ConcurrentTables
    /\ NoCall
    /\ LoaderIdle
    /\ NoInvocations
    /\ NoUsage
    /\ ServiceIdle

NextService ==
    \/ StartAnalysis
    \/ Download
    \/ DownloadFails
    \/ ExtractText
    \/ ExtractFails
    \/ AnalyzeText
    \/ AnalyzeFails
    \/ SaveResults
    \/ SaveFails
    \/ ReturnProfile
    \/ RefreshFails
    \/ GetDocumentAnalysis
    \/ NextRequest

SpecService == InitService /\ [][NextService]_vars

\* ============================================================= properties
ReturnedProfile == outcome.kind = "profile"
P == outcome.profile
Stats == outcome.profile.statistics
Details == outcome.profile.word_details

\* The rows of the table for one word, and the lowest grade among them.
RowsFor(w) == {r \in grade_words : r.word = w}
LowestGrade(w) ==
    CHOOSE g \in {r.grade_level : r \in RowsFor(w)} :
        \A r \in RowsFor(w) : g <= r.grade_level

\* The categorization rule as the specification states it.
CategoryRule(category, word_grade, student_grade) ==
    /\ category \in {"below", "at", "above", "unknown"}
    /\ category = "unknown" <=> word_grade = None
    /\ category = "below" <=> (word_grade # None /\ word_grade[1] < student_grade)
    /\ category = "at" <=> (word_grade # None /\ word_grade[1] = student_grade)
    /\ category = "above" <=> (word_grade # None /\ word_grade[1] > student_grade)

\* C1: in every returned profile the below, at and above counts add up to
\* analyzed_words.
C1_Partition ==
    ReturnedProfile =>
        Stats.below_grade_count + Stats.at_grade_count + Stats.above_grade_count
            = Stats.analyzed_words

\* A profile with a word below, a word at and a word above the student's grade.
C1_Witness ==
    /\ ReturnedProfile
    /\ Stats.below_grade_count >= 1
    /\ Stats.at_grade_count >= 1
    /\ Stats.above_grade_count >= 1

C4_OrderIndependent ==
    pc \in {"analyzing", "statistics"} =>
        \A results \in Orderings(QueryRows(grade_words, UniqueWords(Keys(word_frequency)))) :
            map_words_to_grades(Keys(word_frequency), results) = word_map

\* C5: a second call on the same text, grade, minimum length and table
\* returns the profile the first call returned.
C5_Deterministic ==
    (prev.kind = "profile" /\ ReturnedProfile) => outcome.profile = prev.profile

Analyzed == {i \in DOMAIN Details : Details[i].category # "unknown"}
Unknown == {i \in DOMAIN Details : Details[i].category = "unknown"}

\* C6: a word the table does not list is UNKNOWN with no grade level;
\* analyzed_words counts the results that are not UNKNOWN, unknown_words the
\* others, and together they make unique_words.
C6_UnknownHandling ==
    ReturnedProfile =>
        /\ \A i \in DOMAIN Details :
              RowsFor(Details[i].word) = {} =>
                  /\ Details[i].category = "unknown"
                  /\ Details[i].grade_level = None
        /\ Stats.analyzed_words = Cardinality(Analyzed)
        /\ Stats.unknown_words = Cardinality(Unknown)
        /\ Stats.analyzed_words <= Stats.unique_words
        /\ Stats.unknown_words = Stats.unique_words - Stats.analyzed_words

\* Four unique words of which the table lists one: analyzed 1, unknown 3.
C6_Witness ==
    /\ ReturnedProfile
    /\ Stats.unique_words = 4
    /\ Stats.analyzed_words = 1
    /\ Stats.unknown_words = 3
    /\ \E i \in DOMAIN Details : RowsFor(Details[i].word) = {}

Abs(x) == IF x < 0 THEN 0 - x ELSE x

\* value is num / den rounded to digits decimals (counted in 10^-digits):
\* no other multiple of 10^-digits is nearer to the quotient.
IsRounded(value, num, den, digits) ==
    2 * Abs(value * den - num * Pow10(digits)) <= den

RECURSIVE SumOver(_, _)
SumOver(f, S) ==
    IF S = {} THEN 0
    ELSE LET x == CHOOSE y \in S : TRUE IN f[x] + SumOver(f, S \ {x})

Whole == Pow10(DistributionDigits)
\* 1e-3, in ten-thousandths
SumTolerance == Pow10(DistributionDigits - 3)

\* C7: when some word was analyzed, the seven percentages sum to 1.0 within 1e-3.
C7_DistributionSum ==
    (ReturnedProfile /\ Stats.analyzed_words > 0) =>
        Abs(SumOver(P.grade_distribution, Grades) - Whole) <= SumTolerance

\* Three analyzed words at three grades: 0.3333 three times, 0.9999 in all.
C7_Witness ==
    /\ ReturnedProfile
    /\ Stats.analyzed_words > 0
    /\ SumOver(P.grade_distribution, Grades) # Whole

WordsAtGrade(g) == {i \in DOMAIN Details : Details[i].grade_level = Some(g)}

\* C8: each percentage is the share of the analyzed unique words at that
\* grade, each word once whatever its frequency, rounded to 4 decimals; it
\* lies in [0,1]; all are 0 when no word was analyzed.
C8_DistributionShares ==
    ReturnedProfile =>
        \A g \in Grades :
            /\ P.grade_distribution[g] \in 0..Whole
            /\ Stats.analyzed_words = 0 => P.grade_distribution[g] = 0
            /\ Stats.analyzed_words > 0 =>
                  IsRounded(P.grade_distribution[g], Cardinality(WordsAtGrade(g)),
                            Stats.analyzed_words, DistributionDigits)

\* A word occurring twice and two words occurring once, all analyzed, the
\* first at a grade of its own: shares 0.3333 and 0.6667 or 0.3333 each.
C8_Witness ==
    /\ ReturnedProfile
    /\ Stats.analyzed_words = 3
    /\ \E i \in Analyzed :
          /\ Details[i].frequency >= 2
          /\ WordsAtGrade(Details[i].grade_level[1]) = {i}

GradeOf == [i \in Analyzed |-> Details[i].grade_level[1]]

C10_UnknownPercentage ==
    /\ Statistics(0, 0, EmptyLoop).unknown_percentage = 0
    /\ ReturnedProfile =>
          /\ Stats.unknown_percentage \in 0..Whole
          /\ Stats.unique_words = 0 => Stats.unknown_percentage = 0
          /\ Stats.unique_words > 0 =>
                IsRounded(Stats.unknown_percentage, Stats.unknown_words,
                          Stats.unique_words, DistributionDigits)

\* Three unique words of which two are unknown: 0.6667.
C10_Witness ==
    /\ ReturnedProfile
    /\ Stats.unique_words = 3
    /\ Stats.unknown_words = 2
    /\ Stats.unknown_percentage * 3 # 2 * Whole

\* The normalized tokens of the text, one per qualifying occurrence.
NormalizedTokens == extract_words_from_text(text, min_word_length)

\* C11: in every returned profile total_words is the sum of the frequencies
\* of all entries of word_details, UNKNOWN ones included, which is the number
\* of normalized tokens of the text, and unique_words is the number of
\* entries of word_details.
C11_WordCounts ==
    ReturnedProfile =>
        /\ Stats.total_words = SumSeq([i \in DOMAIN Details |-> Details[i].frequency])
        /\ Stats.total_words = Len(NormalizedTokens)
        /\ Stats.unique_words = Len(Details)

\* A profile with a word that occurs twice and a word the table does not list.
C11_Witness ==
    /\ ReturnedProfile
    /\ \E i \in DOMAIN Details : Details[i].frequency >= 2
    /\ \E i \in DOMAIN Details : Details[i].category = "unknown"
    /\ Stats.total_words > Stats.unique_words

Challenging == outcome.profile.challenging_words
AboveDetails == {j \in DOMAIN Details : Details[j].category = "above"}
Kept(j) == \E i \in DOMAIN Challenging : Challenging[i] = Details[j]

\* a sorts strictly before b: a higher grade, or the same grade and a higher
\* frequency.
Outranks(a, b) ==
    \/ a.grade_level[1] > b.grade_level[1]
    \/ a.grade_level[1] = b.grade_level[1] /\ a.frequency > b.frequency
SameRank(a, b) ==
    a.grade_level[1] = b.grade_level[1] /\ a.frequency = b.frequency

\* C12: challenging_words of a returned profile holds only ABOVE results of
\* word_details, each at most once, and min(20, above_grade_count) of them;
\* when more than 20 results are ABOVE, the kept ones are the first 20 in the
\* order (grade_level descending, frequency descending): no result left out
\* sorts before a kept one, and among results of equal rank the earlier of
\* word_details is the one kept.
C12_ChallengingWords ==
    ReturnedProfile =>
        /\ \A i \in DOMAIN Challenging :
              /\ Challenging[i].category = "above"
              /\ \E j \in DOMAIN Details : Details[j] = Challenging[i]
        /\ \A i, j \in DOMAIN Challenging :
              Challenging[i].word = Challenging[j].word => i = j
        /\ Stats.above_grade_count = Cardinality(AboveDetails)
        /\ Len(Challenging) =
              IF Stats.above_grade_count < ChallengingLimit
              THEN Stats.above_grade_count ELSE ChallengingLimit
        /\ \A j \in AboveDetails : \A k \in AboveDetails :
              (Kept(k) /\ ~Kept(j)) =>
                  /\ ~Outranks(Details[j], Details[k])
                  /\ SameRank(Details[j], Details[k]) => k < j

\* More than 20 words are ABOVE and one of equal rank with a kept word is
\* left out.
C12_Witness ==
    /\ ReturnedProfile
    /\ Stats.above_grade_count > ChallengingLimit
    /\ Len(Challenging) = ChallengingLimit
    /\ \E j \in AboveDetails : \E k \in AboveDetails :
          Kept(k) /\ ~Kept(j) /\ SameRank(Details[j], Details[k])

\* The position in word_details of a result.
DetailIndex(r) == CHOOSE j \in DOMAIN Details : Details[j] = r

\* C13: challenging_words is ordered highest grade first: of two entries the
\* earlier has the higher grade, or the same grade and a frequency at least
\* as high; entries equal in grade and frequency stand in the order they
\* have in word_details.
C13_ChallengingOrder ==
    ReturnedProfile =>
        \A i, j \in DOMAIN Challenging :
            i < j =>
                /\ \/ Challenging[i].grade_level[1] > Challenging[j].grade_level[1]
                   \/ /\ Challenging[i].grade_level[1] = Challenging[j].grade_level[1]
                      /\ Challenging[i].frequency >= Challenging[j].frequency
                /\ SameRank(Challenging[i], Challenging[j]) =>
                      DetailIndex(Challenging[i]) < DetailIndex(Challenging[j])

\* The sort moved a word forward past an earlier word, once for its grade and
\* once for its frequency, and left two words of equal rank in place.
C13_Witness ==
    /\ ReturnedProfile
    /\ \E i, j \in DOMAIN Challenging :
          /\ i < j
          /\ Challenging[i].grade_level[1] > Challenging[j].grade_level[1]
          /\ DetailIndex(Challenging[i]) > DetailIndex(Challenging[j])
    /\ \E i, j \in DOMAIN Challenging :
          /\ i < j
          /\ Challenging[i].grade_level[1] = Challenging[j].grade_level[1]
          /\ Challenging[i].frequency > Challenging[j].frequency
          /\ DetailIndex(Challenging[i]) > DetailIndex(Challenging[j])
    /\ \E i, j \in DOMAIN Challenging :
          i < j /\ SameRank(Challenging[i], Challenging[j])

Occurrences(w, tokens) == Cardinality({k \in DOMAIN tokens : tokens[k] = w})

\* C14: word_details of a returned profile holds one result for every
\* distinct normalized word of the text and no other, none twice, each with
\* the number of occurrences of its word (at least 1) as frequency;
\* definition, example and subject come from a row of the word in the
\* lexicon and are all absent when the word is UNKNOWN.
C14_WordDetails ==
    ReturnedProfile =>
      LET tokens == NormalizedTokens IN
        /\ {Details[i].word : i \in DOMAIN Details} = Range(tokens)
        /\ \A i, j \in DOMAIN Details : Details[i].word = Details[j].word => i = j
        /\ \A i \in DOMAIN Details :
              /\ Details[i].frequency = Occurrences(Details[i].word, tokens)
              /\ Details[i].frequency >= 1
              /\ IF Details[i].category = "unknown"
                 THEN /\ RowsFor(Details[i].word) = {}
                      /\ Details[i].definition = None
                      /\ Details[i].example = None
                      /\ Details[i].subject = None
                 ELSE \E r \in RowsFor(Details[i].word) :
                          /\ Details[i].definition = Some(r.definition)
                          /\ Details[i].example = r.example
                          /\ Details[i].subject = r.subject

\* A profile with a word of two occurrences, an UNKNOWN word, and a word
\* carrying the definition and subject of its row.
C14_Witness ==
    /\ ReturnedProfile
    /\ \E i \in DOMAIN Details : Details[i].frequency = 2
    /\ \E i \in DOMAIN Details :
          Details[i].category = "unknown" /\ Details[i].definition = None
    /\ \E i \in DOMAIN Details :
          Details[i].definition # None /\ Details[i].subject # None

Failed == outcome.kind = "error"
InvalidGrade == student_grade_level \notin ValidGrades

\* C15 as stated: for every student grade outside 6..12 the call fails with
\* InvalidGradeError.
C15_InvalidGradeError ==
    (pc = "done" /\ InvalidGrade) =>
        (Failed /\ outcome.error = "InvalidGradeError")

\* C15, amended: for every student grade outside 6..12 the call returns no
\* profile, whatever the text and the lexicon; it fails with
\* VocabularyAnalysisError, and once the words were analyzed the cause is the
\* validation error of the VocabularyProfile constructor.
C15_InvalidGradeRejected ==
    (pc = "done" /\ InvalidGrade) =>
        /\ Failed
        /\ outcome.error = "VocabularyAnalysisError"
        /\ loop # EmptyLoop => outcome.cause = "ValidationError"

\* A call for grade 13 or 5 that ran the lookup and the analysis and failed on
\* building the profile.
C15_Witness ==
    /\ pc = "done"
    /\ InvalidGrade
    /\ lookups = 1
    /\ loop.word_details # <<>>
    /\ Failed
    /\ outcome.cause = "ValidationError"

\* C16 as stated: a text that is empty, blank or without a qualifying word
\* makes the call fail with EmptyInputError.
C16_EmptyInputError ==
    (pc = "done" /\ NormalizedTokens = <<>>) =>
        (Failed /\ outcome.error = "EmptyInputError")

\* C16, amended: a text that is empty, blank or without a qualifying word
\* makes the call fail with VocabularyAnalysisError and no profile, not even
\* one of zero counts, is returned; for a blank text the cause is the
\* VocabularyAnalysisError raised for the empty word_frequency.
C16_EmptyInputRejected ==
    (pc = "done" /\ NormalizedTokens = <<>>) =>
        /\ Failed
        /\ outcome.error = "VocabularyAnalysisError"
        /\ outcome.cause \in {"VocabularyAnalysisError", "WordProcessingError"}
        /\ IsBlank(text) => outcome.cause = "VocabularyAnalysisError"

\* A call on a text that is not blank but whose tokens are all filtered out.
C16_Witness ==
    /\ pc = "done"
    /\ ~IsBlank(text)
    /\ NormalizedTokens = <<>>
    /\ Failed
    /\ outcome.cause = "VocabularyAnalysisError"

\* C17: a call of analyze_vocabulary never issues more than one lexicon
\* lookup, and a call that returns a profile has issued exactly one, whatever
\* the number of unique words.
C17_OneLookup ==
    /\ lookups <= 1
    /\ ReturnedProfile => lookups = 1

\* A second call returned a profile of several words after one lookup.
C17_Witness ==
    /\ ReturnedProfile
    /\ calls = 2
    /\ Len(Details) >= 3
    /\ lookups = 1

\* The call ended on a failed lexicon lookup.
LookupFailed == pc = "done" /\ Failed /\ outcome.cause = "DatabaseError"

\* C18 as stated: when the lexicon lookup fails, the error that reaches the
\* caller is the provider's own error, not wrapped in another class.
C18_ProviderErrorUnchanged ==
    LookupFailed => outcome.error = outcome.cause

\* C18, amended: when the lexicon lookup fails, the caller gets a
\* VocabularyAnalysisError whose cause is the provider's error, nothing of
\* the analysis has run, and no returned profile marks a word UNKNOWN that
\* the lexicon lists.
C18_ProviderErrorWrapped ==
    /\ LookupFailed =>
          /\ outcome.error = "VocabularyAnalysisError"
          /\ lookups = 1
          /\ word_map = EmptyMap
          /\ loop = EmptyLoop
    /\ ReturnedProfile =>
          \A i \in DOMAIN Details :
              Details[i].category = "unknown" => RowsFor(Details[i].word) = {}

\* The lookup failed for words the lexicon lists.
C18_Witness ==
    /\ LookupFailed
    /\ \E i \in DOMAIN word_frequency : RowsFor(word_frequency[i].word) # {}

\* The failures of the stages of analyze_vocabulary: no word left, the model
\* not loading, the lookup, and the constraints of the result models.
StageFailures ==
    {"VocabularyAnalysisError", "WordProcessingError", "DatabaseError", "ValidationError"}

\* C19: a call of analyze_vocabulary hands nothing to its caller before it
\* ends, and ends either with a profile, every stage having run without a
\* failure, or with one VocabularyAnalysisError whose cause is the failure
\* of the stage that stopped it, the later stages not having run.
C19_AllOrNothing ==
    /\ pc # "done" => outcome = NoOutcome
    /\ pc = "done" => (ReturnedProfile \/ Failed)
    /\ Failed =>
          /\ DOMAIN outcome = {"kind", "error", "cause"}
          /\ outcome.error = "VocabularyAnalysisError"
          /\ outcome.cause \in StageFailures
          /\ outcome.cause \in {"VocabularyAnalysisError", "WordProcessingError"} =>
                (word_frequency = <<>> /\ lookups = 0)
          /\ outcome.cause = "DatabaseError" => (word_map = EmptyMap /\ loop = EmptyLoop)
          /\ outcome.cause = "ValidationError" =>
                \/ ~ValidProfile(student_grade_level)
                \/ \E i \in DOMAIN loop.word_details : ~ValidWordResult(loop.word_details[i])
                \/ ~ValidStatistics(Statistics(Len(NormalizedTokens), Len(word_frequency), loop))
    /\ ReturnedProfile =>
          /\ nlp_model # None
          /\ word_frequency # <<>>
          /\ lookups = 1
          /\ Len(Details) = Len(word_frequency)
          /\ \A i \in DOMAIN Details : ValidWordResult(Details[i])
          /\ ValidStatistics(Stats)
          /\ ValidDistribution(P.grade_distribution)
          /\ ValidProfile(P.student_grade_level)

\* The model failed to load on a text with words: the call ended in the
\* first stage with the wrapped WordProcessingError.
C19_Witness ==
    /\ pc = "done"
    /\ Failed
    /\ outcome.cause = "WordProcessingError"
    /\ NormalizedTokens # <<>>
    /\ lookups = 0

HasReturned(c) == callers[c].pc = "returned"

\* C20: however the first calls of load_spacy_model by several callers
\* interleave, spacy.load runs at most once, and the callers that have
\* returned all hold the same model.
C20_InitializedOnce ==
    /\ loads <= 1
    /\ \A c, d \in Callers :
          (HasReturned(c) /\ HasReturned(d)) => callers[c].got = callers[d].got

\* C21: the model a call of load_spacy_model has returned stays the cached
\* one: it is never replaced or cleared, so that every later call, whatever
\* model name it passes, returns it without loading.
C21_CacheReused ==
    \A c \in Callers : HasReturned(c) => nlp_model = callers[c].got

\* C29: a load that fails leaves the cache as it was: the cache is unset
\* until a load has succeeded and only ever holds a model spacy.load
\* returned, and the caller whose load failed has raised with no model in
\* hand, so that its next call finds the cache unset and loads again.
C29_FailedLoadLeavesCacheUnset ==
    /\ loads = 0 => nlp_model = None
    /\ nlp_model # None =>
          \E model_name \in ModelNames, load \in 1..loads :
              nlp_model = Some(Language(model_name, load))
    /\ \A c \in Callers :
          callers[c].pc = "raised" =>
              /\ callers[c].got = None
              /\ callers[c].loaded = None
              /\ spacy # None => callers[c].failed >= 1

\* A caller whose load failed has called again, found the cache unset and
\* is loading once more.
C29_Witness ==
    /\ nlp_model = None
    /\ \E c \in Callers : callers[c].failed >= 1 /\ callers[c].pc = "loading"

\* C22: whatever the interleaving of concurrent calls of analyze_vocabulary,
\* the profile a call returns is one the call returns when it runs alone on
\* the same text, grade and table, and a call that has not begun has none of
\* its locals written by the others.
C22_Independent ==
    \A i \in Callers :
        LET inv == invocations[i] IN
        /\ inv.outcome.kind = "profile" =>
              inv.outcome.profile \in
                  ProfilesAlone(inv.text, inv.student_grade_level, inv.min_word_length)
        /\ inv.pc = "start" =>
              inv = Invocation(inv.text, inv.student_grade_level, inv.min_word_length)

\* One call has returned its profile while another call, on another text,
\* is between its lookup and its analysis.
C22_Witness ==
    \E i, j \in Callers :
        /\ invocations[i].outcome.kind = "profile"
        /\ invocations[j].pc = "analyzing"
        /\ invocations[j].text # invocations[i].text
        /\ invocations[j].word_map # invocations[i].word_map

\* The tokens the claim lets through: tested on the token itself for
\* stopword, punctuation, number and whitespace, on the lower-cased lemma for
\* its length and for a letter a-z.
Qualifies(token, min_length) ==
    /\ ~token.is_stop
    /\ ~token.is_punct
    /\ ~(token.is_digit \/ token.like_num)
    /\ ~token.is_space
    /\ Len(token.lemma_) >= min_length
    /\ \E i \in DOMAIN token.lemma_ :
          token.lemma_[i] \in Range(Lowers) \cup Range(Uppers)

QualifyingIndices(txt, min_length) == {i \in DOMAIN txt : Qualifies(txt[i], min_length)}

C23_ProfileImmutable ==
    [][vocab_profile # None =>
          /\ vocab_profile' # None
          /\ vocab_profile'[1].statistics = vocab_profile[1].statistics
          /\ vocab_profile'[1].grade_distribution = vocab_profile[1].grade_distribution
          /\ vocab_profile'[1].challenging_words = vocab_profile[1].challenging_words
          /\ vocab_profile'[1].word_details = vocab_profile[1].word_details]_vars

\* get_words_by_category has returned the words of a category in another
\* order than word_details lists them.
C23_Witness ==
    /\ derived # None
    /\ derived[1].op = "get_words_by_category"
    /\ \E category \in WordCategories :
          /\ derived[1].result # WordsOfCategory(vocab_profile[1], category)
          /\ derived[1].result = SortByFrequency(WordsOfCategory(vocab_profile[1], category))

\* C30: compare_to_grade_standard returns the score 0.0 for a profile without
\* analyzed words, otherwise (0.5 * below + 1.0 * at + 1.5 * above) /
\* analyzed_words rounded to 2 decimals, which lies in [0.5, 1.5]; the
\* performance is "unknown" exactly when average_grade_level is absent.
C30_ProficiencyScore ==
    (derived # None /\ derived[1].op = "compare_to_grade_standard") =>
        LET stats == vocab_profile[1].statistics
            score == derived[1].result.proficiency_score
        IN  /\ stats.analyzed_words = 0 => score = 0
            /\ stats.analyzed_words > 0 =>
                  /\ IsRounded(score,
                               stats.below_grade_count + 2 * stats.at_grade_count
                                   + 3 * stats.above_grade_count,
                               2 * stats.analyzed_words, ScoreDigits)
                  /\ 2 * score >= Pow10(ScoreDigits)
                  /\ 2 * score <= 3 * Pow10(ScoreDigits)
            /\ derived[1].result.performance = "unknown"
                  <=> stats.average_grade_level = None

\* A profile with words below, at and above the grade has been compared and
\* its score had to be rounded.
C30_Witness ==
    /\ derived # None
    /\ derived[1].op = "compare_to_grade_standard"
    /\ LET stats == vocab_profile[1].statistics IN
          /\ stats.below_grade_count > 0
          /\ stats.at_grade_count > 0
          /\ stats.above_grade_count > 0
          /\ (Pow10(ScoreDigits) * (stats.below_grade_count + 2 * stats.at_grade_count
                   + 3 * stats.above_grade_count)) % (2 * stats.analyzed_words) # 0

\* A request to analyze_document, or to get_document_analysis, has ended.
AnalysisEnded == request.pc = "done" /\ request.kind = "analyze"
FetchEnded == request.pc = "done" /\ request.kind = "get"

\* C25: the profile GET /{document_id}/analysis returns equals the profile the
\* most recent POST /{document_id}/analyze returned and saved: statistics,
\* grade_distribution for the grades 6..12, challenging_words, word_details.
C25_RoundTrip ==
    (FetchEnded /\ request.response[1].status_code = 200) =>
        /\ request.saved # None
        /\ request.response[1].body = request.saved

\* C26: a request to analyze_document that has marked the document as
\* processing leaves it completed or failed when the request ends.
C26_NeverLeftProcessing ==
    AnalysisEnded => document.status \in {"completed", "failed"}

C28_NoLookupWithoutWords ==
    /\ lookups > 0 => word_frequency # <<>>
    /\ pc = "done" =>
          LET tokens == NormalizedTokens IN
          tokens = <<>> => (Failed /\ lookups = 0)

\* The second of two calls on a text whose tokens are all filtered out has
\* failed, like the first, without a lookup.
C28_Witness ==
    /\ pc = "done"
    /\ Failed
    /\ lookups = 0
    /\ calls = 2
    /\ text # <<>>
    /\ NormalizedTokens = <<>>
    /\ prev.kind = "error"
====
